---- MODULE Spec2Model ----
(***************************************************************************)
(* Behaviour layer of the Sustenta Futuro landing page (src/script.js):    *)
(* navbar scroll flag, reveal-on-scroll, counter animation, mobile menu    *)
(* and the simulated contact-form submission.                              *)
(*                                                                         *)
(* The browser is the environment: it dispatches DOMContentLoaded, scroll, *)
(* click and submit events, delivers IntersectionObserver callbacks with a *)
(* batch of entries, runs the animation-frame callbacks of a frame with    *)
(* one timestamp, and fires timers when they are due.  Every handler runs  *)
(* to completion (one action per handler).                                 *)
(***************************************************************************)
EXTENDS Integers, Sequences, FiniteSets, TLC

VARIABLES
    markup,           \* the elements the document holds (fixed after Init)
    loaded,           \* the DOMContentLoaded listener has run
    now,              \* clock in ms: performance.now() and the timer clock
    scrollY,          \* window.scrollY
    navScrolled,      \* navbar.classList contains 'scrolled'
    scrollBound,      \* onScroll is registered on window
    visible,          \* el -> classList contains 'visible'
    revealObserved,   \* elements the reveal observer observes
    revealRuns,       \* el -> times the reveal branch (lines 52-53) ran
    counterObserved,  \* elements the counter observer observes
    started,          \* el -> times animateCounter was called
    textContent,      \* el -> textContent (sequence of characters)
    written,          \* el -> update has assigned textContent (line 107)
    rafQueue,         \* pending animation-frame callbacks (update closures)
    lastFrameTs,      \* timestamp of the last frame that ran callbacks
    toggleActive,     \* navToggle.classList contains 'active'
    linksOpen,        \* navLinks.classList contains 'open'
    menuBound,        \* the click listeners of initMobileMenu are registered
    clicks,           \* toggle clicks since load or the last link click
    menuAtRest,       \* <<active, open>> when clicks was last 0
    btnText,          \* submitBtn.textContent
    btnDisabled,      \* submitBtn.disabled
    btnOpacity,       \* submitBtn.style.opacity
    btnBackground,    \* submitBtn.style.background
    formFilled,       \* contactForm has user input in its fields
    submits,          \* submit events dispatched so far
    prevented,        \* submit events whose default action was prevented
    timers            \* pending setTimeout callbacks, in registration order

vars == <<markup, loaded, now, scrollY, navScrolled, scrollBound, visible,
          revealObserved, revealRuns, counterObserved, started, textContent,
          written, rafQueue, lastFrameTs, toggleActive, linksOpen, menuBound, clicks,
          menuAtRest, btnText, btnDisabled, btnOpacity, btnBackground,
          formFilled, submits, prevented, timers>>

navVars     == <<scrollY, navScrolled, scrollBound>>
revealVars  == <<visible, revealObserved, revealRuns>>
counterVars == <<counterObserved, started, textContent, written, rafQueue,
                 lastFrameTs>>
menuVars    == <<toggleActive, linksOpen, menuBound, clicks, menuAtRest>>
formVars    == <<btnText, btnDisabled, btnOpacity, btnBackground, formFilled,
                 submits, prevented, timers>>

---------------------------------------------------------------------------
(* Program constants *)

ScrollThreshold == 60
Duration == 2000
SendDelay == 1200
ResetDelay == 3000
Radix == 10

SendingText == "Enviando..."
\* line 165; the leading check-mark glyph of the literal is left out (ASCII)
SentText == "Mensaje Enviado"
IdleText == "Enviar Mensaje"
SentBackground == "linear-gradient(135deg, #4CAF50, #388E3C)"

(* Bounds of the model *)

MaxBatch == 2       \* entries in one IntersectionObserver callback
MaxClicks == 3      \* toggle clicks in a row
MaxSubmits == 2     \* submit events per page load
CounterTicks == 10  \* clock ticks of FrameTick ms in SpecCounter
FormTicks == 13     \* clock ticks of FormTick ms in SpecForm
PageTicks == 3      \* clock ticks of PageTick ms in Spec

RevealEls == {"r1", "r2"}
CounterEls == {"c1", "c2"}

\* Clock granularities: an eighth of the animation (all progress ratios are
\* then dyadic, so the floating-point arithmetic of lines 101-105 is exact)
\* and the common divisor of the two form delays.
FrameTick == Duration \div 8
FormTick == SendDelay \div 2

ScrollOffsets == {0, ScrollThreshold - 1, ScrollThreshold, ScrollThreshold + 1}

---------------------------------------------------------------------------
(* Navbar: lines 27-37 *)

\* variant: the threshold itself counts as scrolled
IsScrolledAtThreshold(y) == y >= ScrollThreshold

\* window.scrollY > 60
IsScrolled(y) == y > ScrollThreshold

\* classList.toggle(name, force): the class is present afterwards iff force
ClassToggleForce(has, force) == force

\* classList.toggle(name)
ClassToggle(has) == ~has

\* onScroll (lines 31-33): the value of the 'scrolled' flag afterwards
OnScroll(has, y) == ClassToggleForce(has, IsScrolled(y))

\* initNavbar
InitNavbar ==
    IF markup.navbar
    THEN /\ scrollBound' = TRUE
         /\ navScrolled' = OnScroll(navScrolled, scrollY)
    ELSE UNCHANGED <<scrollBound, navScrolled>>

\* a scroll event of the window: the browser sets scrollY, then runs onScroll
\* if it is registered
Scroll(y) ==
    /\ y # scrollY
    /\ scrollY' = y
    /\ navScrolled' = IF scrollBound THEN OnScroll(navScrolled, y) ELSE navScrolled
    /\ UNCHANGED <<markup, loaded, now, scrollBound>>
    /\ UNCHANGED <<revealVars, counterVars, menuVars, formVars>>

---------------------------------------------------------------------------
(* IntersectionObserver entries *)

\* The batches a callback can receive: 1..MaxBatch entries, each for an
\* element observed when the callback starts.  An element can have several
\* entries in one batch (its intersection changed more than once before the
\* callback ran).
Batches(observed) ==
    UNION { [1..n -> [target : observed, isIntersecting : BOOLEAN]] : n \in 1..MaxBatch }

\* the targets of the intersecting entries of a batch, in order
RECURSIVE Intersecting(_)
Intersecting(entries) ==
    IF entries = <<>> THEN <<>>
    ELSE IF Head(entries).isIntersecting
         THEN <<Head(entries).target>> \o Intersecting(Tail(entries))
         ELSE Intersecting(Tail(entries))

Range(s) == {s[i] : i \in 1..Len(s)}
Count(s, x) == Cardinality({i \in 1..Len(s) : s[i] = x})

---------------------------------------------------------------------------
(* Reveal-on-scroll: lines 44-61 *)

\* variant: the callback never stops observing
UnobserveNothing(observed, hit) == observed

\* observer.unobserve(target) for each target of hit
Unobserve(observed, hit) == observed \ Range(hit)

\* initScrollAnimations
InitScrollAnimations ==
    IF markup.reveal = {}
    THEN UNCHANGED revealObserved
    ELSE revealObserved' = markup.reveal

\* variant: the class follows the last entry of each target and observation
\* goes on (classList.toggle('visible', entry.isIntersecting))
RevealCallbackRehide(entries) ==
    LET of(el) == {i \in 1..Len(entries) : entries[i].target = el} IN
    /\ visible' = [el \in RevealEls |->
                      IF of(el) = {} THEN visible[el]
                      ELSE entries[CHOOSE i \in of(el) : \A j \in of(el) : j <= i].isIntersecting]
    /\ revealRuns' = [el \in RevealEls |-> revealRuns[el] + Count(Intersecting(entries), el)]
    /\ UNCHANGED <<markup, loaded, now, revealObserved>>
    /\ UNCHANGED <<navVars, counterVars, menuVars, formVars>>

\* variant: every entry reveals its target, intersecting or not
RevealCallbackAny(entries) ==
    LET all == [i \in 1..Len(entries) |-> entries[i].target] IN
    /\ visible' = [el \in RevealEls |-> visible[el] \/ el \in Range(all)]
    /\ revealObserved' = Unobserve(revealObserved, all)
    /\ revealRuns' = [el \in RevealEls |->
                         revealRuns[el] + Count(Intersecting(entries), el)]
    /\ UNCHANGED <<markup, loaded, now>>
    /\ UNCHANGED <<navVars, counterVars, menuVars, formVars>>

\* variant: an intersecting entry reveals every element still observed
RevealCallbackAll(entries) ==
    LET hit == Intersecting(entries) IN
    /\ visible' = [el \in RevealEls |->
                      visible[el] \/ (hit # <<>> /\ el \in revealObserved)]
    /\ revealObserved' = Unobserve(revealObserved, hit)
    /\ revealRuns' = [el \in RevealEls |-> revealRuns[el] + Count(hit, el)]
    /\ UNCHANGED <<markup, loaded, now>>
    /\ UNCHANGED <<navVars, counterVars, menuVars, formVars>>

\* the observer callback of lines 49-56
RevealCallback(entries) ==
    LET hit == Intersecting(entries) IN
    /\ visible' = [el \in RevealEls |-> visible[el] \/ el \in Range(hit)]
    /\ revealObserved' = Unobserve(revealObserved, hit)
    /\ revealRuns' = [el \in RevealEls |-> revealRuns[el] + Count(hit, el)]
    /\ UNCHANGED <<markup, loaded, now>>
    /\ UNCHANGED <<navVars, counterVars, menuVars, formVars>>

RevealIntersection ==
    \E entries \in Batches(revealObserved) : RevealCallback(entries)

---------------------------------------------------------------------------
(* Mobile menu: lines 121-138 *)

\* initMobileMenu
InitMobileMenu ==
    IF markup.navToggle /\ markup.navLinks
    THEN menuBound' = TRUE
    ELSE UNCHANGED menuBound

\* variant: the listener opens the menu and never closes it
ToggleHandlerAdd(active, open) == <<TRUE, TRUE>>

\* variant: the listener toggles the panel only
ToggleHandlerPanelOnly(active, open) == <<active, ClassToggle(open)>>

\* the toggle's click listener, lines 126-129
ToggleHandler(active, open) == <<ClassToggle(active), ClassToggle(open)>>

\* variant: the link listener toggles the classes as the toggle does
LinkHandlerToggle(active, open) == <<ClassToggle(active), ClassToggle(open)>>

\* a link's click listener, lines 133-136
LinkHandler(active, open) == <<FALSE, FALSE>>

ToggleClick ==
    /\ menuBound
    /\ clicks < MaxClicks
    /\ toggleActive' = ToggleHandler(toggleActive, linksOpen)[1]
    /\ linksOpen' = ToggleHandler(toggleActive, linksOpen)[2]
    /\ clicks' = clicks + 1
    /\ UNCHANGED <<markup, loaded, now, menuBound, menuAtRest>>
    /\ UNCHANGED <<navVars, revealVars, counterVars, formVars>>

LinkClick ==
    /\ menuBound
    /\ toggleActive' = LinkHandler(toggleActive, linksOpen)[1]
    /\ linksOpen' = LinkHandler(toggleActive, linksOpen)[2]
    /\ clicks' = 0
    /\ menuAtRest' = <<toggleActive', linksOpen'>>
    /\ UNCHANGED <<markup, loaded, now, menuBound>>
    /\ UNCHANGED <<navVars, revealVars, counterVars, formVars>>

---------------------------------------------------------------------------
(* JavaScript numbers and strings, as far as lines 95-107 use them *)

\* a number is an integer or NaN
Num(n) == [nan |-> FALSE, v |-> n]
NaN == [nan |-> TRUE, v |-> 0]

Digits == <<"0", "1", "2", "3", "4", "5", "6", "7", "8", "9">>
IsDigit(c) == \E d \in 1..Radix : Digits[d] = c
DigitValue(c) == (CHOOSE d \in 1..Radix : Digits[d] = c) - 1

RECURSIVE SkipWhitespace(_)
SkipWhitespace(s) ==
    IF s # <<>> /\ Head(s) = " " THEN SkipWhitespace(Tail(s)) ELSE s

\* value of the longest prefix of digits of s, continuing from acc
RECURSIVE DigitsValue(_, _)
DigitsValue(s, acc) ==
    IF s = <<>> \/ ~IsDigit(Head(s)) THEN acc
    ELSE DigitsValue(Tail(s), acc * Radix + DigitValue(Head(s)))

\* parseInt(s, 10), line 95: leading whitespace, an optional sign, then the
\* longest run of decimal digits; NaN when there is no digit
ParseInt(s) ==
    LET t == SkipWhitespace(s)
        signed == t # <<>> /\ Head(t) \in {"-", "+"}
        u == IF signed THEN Tail(t) ELSE t
    IN  IF u = <<>> \/ ~IsDigit(Head(u)) THEN NaN
        ELSE IF signed /\ Head(t) = "-" THEN Num(0 - DigitsValue(u, 0))
        ELSE Num(DigitsValue(u, 0))

RECURSIVE NatToString(_)
NatToString(n) ==
    IF n < Radix THEN <<Digits[n + 1]>>
    ELSE NatToString(n \div Radix) \o <<Digits[(n % Radix) + 1]>>

\* the string a number becomes when assigned to textContent, line 107
NumberToString(x) ==
    IF x.nan THEN <<"N", "a", "N">>
    ELSE IF x.v < 0 THEN <<"-">> \o NatToString(0 - x.v)
    ELSE NatToString(x.v)

(* Exact fractions n/d with d > 0 *)

RECURSIVE GCD(_, _)
GCD(a, b) == IF b = 0 THEN a ELSE GCD(b, a % b)
Abs(a) == IF a < 0 THEN 0 - a ELSE a
Frac(n, d) == LET g == GCD(Abs(n), d) IN [n |-> n \div g, d |-> d \div g]
FracLess(p, q) == p.n * q.d < q.n * p.d

\* Math.min(p, 1)
MinOne(p) == IF FracLess(p, Frac(1, 1)) THEN p ELSE Frac(1, 1)

\* Math.round: the nearest integer, halves towards +infinity
MathRound(p) == (2 * p.n + p.d) \div (2 * p.d)

---------------------------------------------------------------------------
(* Counter animation: lines 68-115 *)

\* line 100
Elapsed(currentTime, startTime) == currentTime - startTime

\* line 101: Math.min(elapsed / duration, 1)
Progress(elapsed) == MinOne(Frac(elapsed, Duration))

\* variant: Math.pow(1 - progress, 3), the complement forgotten
EaseMissingComplement(p) ==
    Frac((p.d - p.n) * (p.d - p.n) * (p.d - p.n), p.d * p.d * p.d)

\* line 104: 1 - Math.pow(1 - progress, 3)
EaseOutCubic(p) ==
    Frac(p.d * p.d * p.d - (p.d - p.n) * (p.d - p.n) * (p.d - p.n), p.d * p.d * p.d)

\* line 105: Math.round(easedProgress * target)
Current(eased, target) ==
    IF target.nan THEN NaN
    ELSE Num(MathRound(Frac(eased.n * target.v, eased.d)))

\* variant: progress <= 1
AgainAtLimit(p) == ~FracLess(Frac(1, 1), p)

\* line 109: progress < 1
Again(p) == FracLess(p, Frac(1, 1))

\* one run of update(currentTime) of the closure c (lines 99-112): the
\* text it writes and whether it requests another frame
Update(c, currentTime) ==
    LET progress == Progress(Elapsed(currentTime, c.startTime))
    IN  [text  |-> NumberToString(Current(EaseOutCubic(progress), c.target)),
         again |-> Again(progress)]

\* animateCounter(element), lines 94-115: the closure whose first frame it
\* requests
AnimateCounter(el) ==
    [element   |-> el,
     target    |-> ParseInt(markup.dataTarget[el]),
     startTime |-> now]

\* initCounterAnimations
InitCounterAnimations ==
    IF markup.counters = {}
    THEN UNCHANGED counterObserved
    ELSE counterObserved' = markup.counters

\* the observer callback of lines 73-80
CounterCallback(entries) ==
    LET hit == Intersecting(entries) IN
    /\ rafQueue' = rafQueue \o [i \in 1..Len(hit) |-> AnimateCounter(hit[i])]
    /\ started' = [el \in CounterEls |-> started[el] + Count(hit, el)]
    /\ counterObserved' = Unobserve(counterObserved, hit)
    /\ UNCHANGED <<markup, loaded, now, textContent, written, lastFrameTs>>
    /\ UNCHANGED <<navVars, revealVars, menuVars, formVars>>

\* the callback runs while an animation it starts can still complete
\* before the clock's horizon
CounterIntersection(horizon) ==
    /\ now + Duration <= horizon
    /\ \E entries \in Batches(counterObserved) : CounterCallback(entries)

\* The timestamp of a frame is the time the frame began: not later than
\* now, possibly earlier than a performance.now() read by a callback that
\* ran since, and later than the previous frame's.
FrameTimestamps == {t \in {now - FrameTick, now} : t >= 0 /\ t > lastFrameTs}

\* the closures of q for element el
ClosuresOf(q, el) == {i \in 1..Len(q) : q[i].element = el}
Last(S) == CHOOSE i \in S : \A j \in S : j <= i

\* one frame: every pending callback runs once with the frame's timestamp,
\* in registration order; callbacks requested meanwhile wait for the next
RunFrame(ts) ==
    /\ rafQueue # <<>>
    /\ textContent' =
           [el \in CounterEls |->
               IF ClosuresOf(rafQueue, el) = {} THEN textContent[el]
               ELSE Update(rafQueue[Last(ClosuresOf(rafQueue, el))], ts).text]
    /\ written' = [el \in CounterEls |-> written[el] \/ ClosuresOf(rafQueue, el) # {}]
    /\ rafQueue' = SelectSeq(rafQueue, LAMBDA c : Update(c, ts).again)
    /\ lastFrameTs' = ts
    /\ UNCHANGED <<markup, loaded, now, counterObserved, started>>
    /\ UNCHANGED <<navVars, revealVars, menuVars, formVars>>

Frame == \E ts \in FrameTimestamps : RunFrame(ts)

---------------------------------------------------------------------------
(* Contact form: lines 150-177 *)

\* setTimeout(callback, delay)
SetTimeout(q, kind, delay, at, fromIdle) ==
    Append(q, [kind |-> kind, due |-> now + delay, at |-> at, fromIdle |-> fromIdle])

\* the timer the browser fires next: the earliest due, first registered
NextTimer ==
    CHOOSE i \in 1..Len(timers) :
        \A j \in 1..Len(timers) :
            timers[i].due < timers[j].due \/ (timers[i].due = timers[j].due /\ i <= j)

TimerDue == timers # <<>> /\ timers[NextTimer].due <= now

Remove(q, i) == [j \in 1..(Len(q) - 1) |-> IF j < i THEN q[j] ELSE q[j + 1]]

\* variant: only the button is required (if (!btn) return)
HandleFormSubmitButtonOnly ==
    /\ prevented' = prevented + 1
    /\ IF markup.submitBtn
       THEN /\ btnText' = SendingText
            /\ btnDisabled' = TRUE
            /\ btnOpacity' = "0.7"
            /\ timers' = SetTimeout(timers, "sent", SendDelay, now, timers = <<>>)
       ELSE UNCHANGED <<btnText, btnDisabled, btnOpacity, timers>>
    /\ UNCHANGED <<btnBackground, formFilled>>

\* handleFormSubmit(event), lines 150-162 and the setTimeout of line 164.
\* at and fromIdle are bookkeeping: when the submit happened and whether no
\* earlier submission was still in progress.
HandleFormSubmit ==
    /\ prevented' = prevented + 1
    /\ IF markup.submitBtn /\ markup.contactForm
       THEN /\ btnText' = SendingText
            /\ btnDisabled' = TRUE
            /\ btnOpacity' = "0.7"
            /\ timers' = SetTimeout(timers, "sent", SendDelay, now, timers = <<>>)
       ELSE UNCHANGED <<btnText, btnDisabled, btnOpacity, timers>>
    /\ UNCHANGED <<btnBackground, formFilled>>

\* a submit event, while a submission started now can still complete
\* before the clock's horizon
Submit(horizon) ==
    /\ submits < MaxSubmits
    /\ now + SendDelay + ResetDelay <= horizon
    /\ submits' = submits + 1
    /\ HandleFormSubmit
    /\ UNCHANGED <<markup, loaded, now>>
    /\ UNCHANGED <<navVars, revealVars, counterVars, menuVars>>

\* variant: the form is not reset
SendTimerKeepsFields ==
    /\ TimerDue
    /\ timers[NextTimer].kind = "sent"
    /\ btnText' = SentText
    /\ btnBackground' = SentBackground
    /\ btnOpacity' = "1"
    /\ timers' = SetTimeout(Remove(timers, NextTimer), "idle", ResetDelay,
                            timers[NextTimer].at, timers[NextTimer].fromIdle)
    /\ UNCHANGED <<markup, loaded, now, btnDisabled, formFilled, submits, prevented>>
    /\ UNCHANGED <<navVars, revealVars, counterVars, menuVars>>

\* variant: the inner setTimeout is missing
SendTimerNoRearm ==
    /\ TimerDue
    /\ timers[NextTimer].kind = "sent"
    /\ btnText' = SentText
    /\ btnBackground' = SentBackground
    /\ btnOpacity' = "1"
    /\ formFilled' = FALSE
    /\ timers' = Remove(timers, NextTimer)
    /\ UNCHANGED <<markup, loaded, now, btnDisabled, submits, prevented>>
    /\ UNCHANGED <<navVars, revealVars, counterVars, menuVars>>

\* the callback of lines 164-176
SendTimer ==
    /\ TimerDue
    /\ timers[NextTimer].kind = "sent"
    /\ btnText' = SentText
    /\ btnBackground' = SentBackground
    /\ btnOpacity' = "1"
    /\ formFilled' = FALSE
    /\ timers' = SetTimeout(Remove(timers, NextTimer), "idle", ResetDelay,
                            timers[NextTimer].at, timers[NextTimer].fromIdle)
    /\ UNCHANGED <<markup, loaded, now, btnDisabled, submits, prevented>>
    /\ UNCHANGED <<navVars, revealVars, counterVars, menuVars>>

\* the callback of lines 171-175
ResetTimer ==
    /\ TimerDue
    /\ timers[NextTimer].kind = "idle"
    /\ btnText' = IdleText
    /\ btnDisabled' = FALSE
    /\ btnBackground' = ""
    /\ timers' = Remove(timers, NextTimer)
    /\ UNCHANGED <<markup, loaded, now, btnOpacity, formFilled, submits, prevented>>
    /\ UNCHANGED <<navVars, revealVars, counterVars, menuVars>>

\* the user types into a field of the form
TypeInForm ==
    /\ markup.contactForm
    /\ ~formFilled
    /\ formFilled' = TRUE
    /\ UNCHANGED <<markup, loaded, now, btnText, btnDisabled, btnOpacity,
                   btnBackground, submits, prevented, timers>>
    /\ UNCHANGED <<navVars, revealVars, counterVars, menuVars>>

---------------------------------------------------------------------------
(* Page load and the clock *)

\* the DOMContentLoaded listener, lines 16-21
PageLoad ==
    /\ ~loaded
    /\ loaded' = TRUE
    /\ InitNavbar
    /\ InitScrollAnimations
    /\ InitCounterAnimations
    /\ InitMobileMenu
    /\ UNCHANGED <<markup, now, scrollY, visible, revealRuns, started,
                   textContent, written, rafQueue, lastFrameTs, toggleActive,
                   linksOpen,
                   clicks, menuAtRest>>
    /\ UNCHANGED formVars

\* time passes; a timer that is due fires before time passes further
Tick(step, horizon) ==
    /\ now + step <= horizon
    /\ ~TimerDue
    /\ now' = now + step
    /\ UNCHANGED <<markup, loaded>>
    /\ UNCHANGED <<navVars, revealVars, counterVars, menuVars, formVars>>

---------------------------------------------------------------------------
(* Documents *)

DefaultTargets == [el \in CounterEls |-> IF el = "c1" THEN <<"1", "0", "0">> ELSE <<"7">>]

\* active and open: the toggle's 'active' and the panel's 'open' class as
\* the document is written
Markup(targets) ==
    [navbar |-> TRUE, navToggle |-> TRUE, navLinks |-> TRUE,
     submitBtn |-> TRUE, contactForm |-> TRUE,
     reveal |-> RevealEls, counters |-> CounterEls, dataTarget |-> targets,
     active |-> FALSE, open |-> FALSE]

\* the state of a freshly parsed document m, before DOMContentLoaded, with
\* the toggle's 'active' and the panel's 'open' class as the markup has them
Fresh(m, active, open) ==
    /\ markup = [m EXCEPT !.active = active, !.open = open]
    /\ toggleActive = active
    /\ linksOpen = open
    /\ loaded = FALSE
    /\ now = 0
    /\ scrollBound = FALSE
    /\ visible = [el \in RevealEls |-> FALSE]
    /\ revealObserved = {}
    /\ revealRuns = [el \in RevealEls |-> 0]
    /\ counterObserved = {}
    /\ started = [el \in CounterEls |-> 0]
    /\ textContent = [el \in CounterEls |-> <<"0">>]
    /\ written = [el \in CounterEls |-> FALSE]
    /\ rafQueue = <<>>
    /\ lastFrameTs = -1
    /\ menuBound = FALSE
    /\ clicks = 0
    /\ menuAtRest = <<active, open>>
    /\ btnText = IdleText
    /\ btnDisabled = FALSE
    /\ btnOpacity = ""
    /\ btnBackground = ""
    /\ submits = 0
    /\ prevented = 0
    /\ timers = <<>>

---------------------------------------------------------------------------
(* Navbar, reveal and menu *)

InitUI ==
    /\ \E active, open \in BOOLEAN : Fresh(Markup(DefaultTargets), active, open)
    /\ scrollY \in ScrollOffsets
    /\ navScrolled \in BOOLEAN
    /\ formFilled = FALSE

NextUI ==
    \/ PageLoad
    \/ \E y \in ScrollOffsets : Scroll(y)
    \/ RevealIntersection
    \/ ToggleClick
    \/ LinkClick

SpecUI == InitUI /\ [][NextUI]_vars

---------------------------------------------------------------------------
(* Counter animation with its clock *)

\* data-target attributes: integers, an integer with a unit, no number
TargetAttrs == { <<"1", "0", "0">>, <<"7">>, <<"0">>, <<" ", "4", "2", "k">>, <<"n", "a">> }

CounterHorizon == CounterTicks * FrameTick

InitCounter ==
    /\ \E targets \in [CounterEls -> TargetAttrs] : Fresh(Markup(targets), FALSE, FALSE)
    /\ scrollY = 0
    /\ navScrolled = FALSE
    /\ formFilled = FALSE

NextCounter ==
    \/ PageLoad
    \/ CounterIntersection(CounterHorizon)
    \/ Frame
    \/ Tick(FrameTick, CounterHorizon)

SpecCounter == InitCounter /\ [][NextCounter]_vars

\* ENABLED <<Frame>>_vars: a callback is pending and a later timestamp exists
FrameEnabled == rafQueue # <<>> /\ FrameTimestamps # {}

\* WF_vars(Frame), with its ENABLED written out as FrameEnabled: the browser
\* keeps delivering frames while callbacks are pending
FrameFairness == []<>(~FrameEnabled) \/ []<><<Frame>>_vars

\* documents of the fair specification: integer targets, and no number at all
FairTargets ==
    { DefaultTargets, [el \in CounterEls |-> IF el = "c1" THEN <<"n", "a">> ELSE <<"0">>] }

FairInitCounter ==
    /\ \E targets \in FairTargets : Fresh(Markup(targets), FALSE, FALSE)
    /\ scrollY = 0
    /\ navScrolled = FALSE
    /\ formFilled = FALSE

\* frames keep being delivered and time keeps passing
FairSpecCounter ==
    /\ FairInitCounter
    /\ [][NextCounter]_vars
    /\ WF_vars(Tick(FrameTick, CounterHorizon))
    /\ FrameFairness

---------------------------------------------------------------------------
(* Contact form with its clock *)

FormHorizon == FormTicks * FormTick

InitForm ==
    /\ Fresh(Markup(DefaultTargets), FALSE, FALSE)
    /\ scrollY = 0
    /\ navScrolled = FALSE
    /\ formFilled \in BOOLEAN

NextForm ==
    \/ Submit(FormHorizon)
    \/ SendTimer
    \/ ResetTimer
    \/ TypeInForm
    \/ Tick(FormTick, FormHorizon)

SpecForm == InitForm /\ [][NextForm]_vars

\* timers that are due fire and time keeps passing
FairSpecForm ==
    SpecForm /\ WF_vars(SendTimer) /\ WF_vars(ResetTimer)
             /\ WF_vars(Tick(FormTick, FormHorizon))

---------------------------------------------------------------------------
(* The whole page: one reveal element, one counter, every event *)

PageTick == Duration
PageHorizon == PageTicks * PageTick

\* the page is scrolled across the threshold and back
PageScrollOffsets == {ScrollThreshold, ScrollThreshold + 1}

PageMarkup ==
    [Markup(DefaultTargets) EXCEPT !.reveal = {"r1"}, !.counters = {"c1"}]

Init ==
    /\ Fresh(PageMarkup, FALSE, FALSE)
    /\ scrollY = 0
    /\ navScrolled = FALSE
    /\ formFilled = FALSE

Next ==
    \/ PageLoad
    \/ \E y \in PageScrollOffsets : Scroll(y)
    \/ RevealIntersection
    \/ CounterIntersection(PageHorizon)
    \/ Frame
    \/ ToggleClick
    \/ LinkClick
    \/ Submit(PageHorizon)
    \/ SendTimer
    \/ ResetTimer
    \/ TypeInForm
    \/ Tick(PageTick, PageHorizon)

Spec == Init /\ [][Next]_vars

---------------------------------------------------------------------------
(* The whole page, with required elements missing from the document *)

\* documents without the navbar and the marked elements; without the toggle
\* and the submit button; without the panel and the form
Incomplete ==
    { [PageMarkup EXCEPT !.navbar = FALSE, !.reveal = {}, !.counters = {}],
      [PageMarkup EXCEPT !.navToggle = FALSE, !.submitBtn = FALSE],
      [PageMarkup EXCEPT !.navLinks = FALSE, !.contactForm = FALSE] }

InitMissing ==
    /\ \E m \in Incomplete : Fresh(m, FALSE, FALSE)
    /\ scrollY = 0
    /\ navScrolled = FALSE
    /\ formFilled = FALSE

SpecMissing == InitMissing /\ [][Next]_vars

---------------------------------------------------------------------------
(* The whole page, a page of two reveal elements, a page of two counters *)

TwoReveals ==
    [Markup(DefaultTargets) EXCEPT !.navbar = FALSE, !.navToggle = FALSE,
                                   !.navLinks = FALSE, !.submitBtn = FALSE,
                                   !.contactForm = FALSE, !.counters = {}]

TwoCounters ==
    [Markup(DefaultTargets) EXCEPT !.navbar = FALSE, !.navToggle = FALSE,
                                   !.navLinks = FALSE, !.submitBtn = FALSE,
                                   !.contactForm = FALSE, !.reveal = {}]

InitPages ==
    /\ \E m \in {PageMarkup, TwoReveals, TwoCounters} : Fresh(m, FALSE, FALSE)
    /\ scrollY = 0
    /\ navScrolled = FALSE
    /\ formFilled = FALSE

SpecPages == InitPages /\ [][Next]_vars

---------------------------------------------------------------------------
(* Properties *)

\* a step in which a frame ran the pending update callbacks
FrameRan == lastFrameTs' # lastFrameTs

\* the target animateCounter reads for el
TargetOf(el) == ParseInt(markup.dataTarget[el])

\* C1: for any batches of entries, animateCounter is started at most once
\* for each counter element.
C1_StartedAtMostOnce == \A el \in CounterEls : started[el] <= 1

\* C2: a frame whose timestamp is 2000 ms or more past the start writes the
\* target and requests no further frame; and with frames being delivered
\* and time advancing, every started animation ends with no callback
\* pending and the target displayed.
C2_LoopStops ==
    /\ [][\A i \in 1..Len(rafQueue) :
            (FrameRan /\ lastFrameTs' - rafQueue[i].startTime >= 2000)
            => /\ textContent'[rafQueue[i].element] = NumberToString(rafQueue[i].target)
               /\ \A j \in 1..Len(rafQueue') : rafQueue'[j] # rafQueue[i]]_vars
    /\ \A el \in CounterEls :
            (started[el] > 0)
            ~> (ClosuresOf(rafQueue, el) = {} /\ textContent[el] = NumberToString(TargetOf(el)))

C2_Witness ==
    /\ started["c1"] = 1
    /\ started["c2"] = 1
    /\ rafQueue = <<>>
    /\ lastFrameTs >= 2000
    /\ markup.dataTarget = DefaultTargets
    /\ textContent["c1"] = <<"1", "0", "0">>
    /\ textContent["c2"] = <<"7">>

\* p = elapsed / 2000 clamped to [0, 1]
Clamp01(p) == IF p.n < 0 THEN Frac(0, 1) ELSE MinOne(p)

\* round(e * target) with e = 1 - (1 - p)^3 and p clamped to [0, 1]
ClampedValue(currentTime, c) ==
    Current(EaseOutCubic(Clamp01(Frac(currentTime - c.startTime, 2000))), c.target)

\* C3: on every frame, the value written to the element is round(e * target)
\* with e = 1 - (1 - p)^3 and p = elapsed / 2000 clamped to [0, 1].
C3_WritesClampedValue ==
    [][FrameRan =>
        \A i \in 1..Len(rafQueue) :
            textContent'[rafQueue[i].element]
                = NumberToString(ClampedValue(lastFrameTs', rafQueue[i]))]_vars

\* C4: for a non-negative integer target, the values one animation displays
\* never decrease from frame to frame; a frame at elapsed = 0 displays 0 and
\* a frame at elapsed >= 2000 displays the target.
C4_MonotoneDisplay ==
    [][FrameRan =>
        \A i \in 1..Len(rafQueue) :
            LET c == rafQueue[i]
                el == c.element
            IN  (~c.target.nan /\ c.target.v >= 0) =>
                /\ written[el] => ParseInt(textContent[el]).v <= ParseInt(textContent'[el]).v
                /\ lastFrameTs' = c.startTime => textContent'[el] = <<"0">>
                /\ lastFrameTs' >= c.startTime + 2000
                       => textContent'[el] = NumberToString(c.target)]_vars

C4_Witness ==
    /\ markup.dataTarget["c1"] = <<"1", "0", "0">>
    /\ written["c1"]
    /\ rafQueue # <<>>
    /\ textContent["c1"] = <<"8", "8">>

C6_VisibleForever == [][\A el \in RevealEls : visible[el] => visible'[el]]_vars

C6_Witness ==
    /\ visible["r1"]
    /\ scrollY > 60
    /\ linksOpen
    /\ started["c1"] > 0
    /\ written["c1"]
    /\ btnText = SentText

\* C7: once initNavbar has run, the navbar has 'scrolled' iff the scroll
\* offset is greater than 60, whatever the flag was before.
C7_ScrolledIffPast60 ==
    (loaded /\ markup.navbar) => (navScrolled <=> scrollY > 60)

C7_Witness == loaded /\ markup.navbar /\ scrollY = 60 /\ ~navScrolled

\* C8: a submit sets 'Enviando...' and disables the button and its default
\* is prevented; the first timer fires 1200 ms after the submit and sets the
\* success text, opacity 1 and empty fields; the second fires 4200 ms after
\* the submit and sets 'Enviar Mensaje', enabled, background cleared.  For a
\* submission that began with no other in progress, the button shows
\* 'Enviando...' until the first timer and stays disabled, never showing
\* 'Enviar Mensaje', until the second.
C8_SubmissionCycle ==
    /\ [](\A i \in 1..Len(timers) :
            /\ now <= timers[i].at + (IF timers[i].kind = "sent" THEN 1200 ELSE 4200)
            /\ timers[i].fromIdle =>
                 /\ btnDisabled
                 /\ btnText # IdleText
                 /\ timers[i].kind = "sent" => btnText = SendingText)
    /\ [][/\ submits' # submits =>
                /\ prevented' = prevented + 1
                /\ (markup.submitBtn /\ markup.contactForm)
                       => (btnText' = SendingText /\ btnDisabled')
          /\ (timers' # timers /\ submits' = submits) =>
                LET t == timers[NextTimer] IN
                /\ t.kind = "sent" =>
                     /\ now = t.at + 1200
                     /\ btnText' = SentText
                     /\ btnOpacity' = "1"
                     /\ ~formFilled'
                     /\ t.fromIdle => btnDisabled'
                /\ t.kind = "idle" =>
                     /\ now = t.at + 4200
                     /\ btnText' = IdleText
                     /\ ~btnDisabled'
                     /\ btnBackground' = ""]_vars

C8_Witness ==
    /\ submits = 1
    /\ now = 4200
    /\ timers = <<>>
    /\ btnText = IdleText
    /\ ~btnDisabled
    /\ btnOpacity = "1"
    /\ btnBackground = ""
    /\ ~formFilled

\* C9: with timers firing, the sending state is always followed by the sent
\* state and the sent state by the idle state with the button enabled; the
\* button never stays disabled forever.
C9_SendCannotFail ==
    /\ (btnText = SendingText) ~> (btnText = SentText)
    /\ (btnText = SentText) ~> (btnText = IdleText /\ ~btnDisabled)
    /\ btnDisabled ~> (~btnDisabled /\ timers = <<>>)

C9_Witness ==
    /\ submits = MaxSubmits
    /\ timers = <<>>
    /\ ~btnDisabled
    /\ btnText = IdleText

Odd(n) == n % 2 = 1

\* C10: every toggle click flips 'active' and 'open' together; after n
\* clicks in a row both differ from what they were iff n is odd.
C10_ToggleFlipsBoth ==
    /\ [](menuBound =>
            /\ toggleActive = (menuAtRest[1] # Odd(clicks))
            /\ linksOpen = (menuAtRest[2] # Odd(clicks)))
    /\ [][clicks' = clicks + 1 =>
            (toggleActive' = ~toggleActive /\ linksOpen' = ~linksOpen)]_vars

C10_Witness ==
    /\ menuBound
    /\ clicks = 2
    /\ menuAtRest = <<FALSE, FALSE>>
    /\ ~toggleActive
    /\ ~linksOpen

\* C11: a click on a navigation link leaves the panel closed and the toggle
\* inactive, whether the panel was open or already closed; it never opens
\* the menu.
C11_LinkClickCloses == [][LinkClick => (~toggleActive' /\ ~linksOpen')]_vars

\* the document was written with the menu open, and a link click closed it
C11_Witness ==
    /\ markup.active
    /\ markup.open
    /\ menuBound
    /\ clicks = 0
    /\ ~toggleActive
    /\ ~linksOpen

\* C12: when a required element is absent (the navbar; every reveal-marked
\* element; every counter; the toggle or the panel; the submit button or
\* the form), the operation registers no listener, observer, frame callback
\* or timer and changes no state of an element that is present; it returns
\* normally, so the rest of the DOMContentLoaded listener runs and a submit
\* event still has its default prevented.
C12_AbsentNoOp ==
    /\ [](/\ ~markup.navbar => ~scrollBound
          /\ markup.reveal = {} => revealObserved = {}
          /\ markup.counters = {} => (counterObserved = {} /\ rafQueue = <<>>)
          /\ ~(markup.navToggle /\ markup.navLinks) => ~menuBound
          /\ ~(markup.submitBtn /\ markup.contactForm) => timers = <<>>)
    /\ [][/\ ~markup.navbar => navScrolled' = navScrolled
          /\ markup.reveal = {} => visible' = visible
          /\ markup.counters = {} => (textContent' = textContent /\ started' = started)
          /\ ~(markup.navToggle /\ markup.navLinks)
                => (toggleActive' = toggleActive /\ linksOpen' = linksOpen)
          /\ ~(markup.submitBtn /\ markup.contactForm)
                => /\ UNCHANGED <<btnText, btnDisabled, btnOpacity, btnBackground>>
                   /\ formFilled => formFilled'
          /\ (~loaded /\ loaded')
                => /\ scrollBound' = markup.navbar
                   /\ revealObserved' = markup.reveal
                   /\ counterObserved' = markup.counters
                   /\ menuBound' = (markup.navToggle /\ markup.navLinks)
          /\ submits' # submits => prevented' = prevented + 1]_vars

\* only the form is missing: two submit events later the button is untouched
C12_Witness ==
    /\ markup.submitBtn
    /\ ~markup.contactForm
    /\ loaded
    /\ submits = MaxSubmits
    /\ prevented = MaxSubmits
    /\ timers = <<>>
    /\ btnText = IdleText
    /\ ~btnDisabled
    /\ btnOpacity = ""

\* C13: every handler changes only its own component.  A scroll event
\* changes nothing of the reveal elements, counters, menu or form; a toggle
\* or link click nothing of the navbar, reveal elements, counters or form; a
\* reveal callback nothing but the 'visible' flag of the elements whose
\* intersecting entry it handled; a counter callback no displayed value; a
\* frame nothing but the text of the elements whose callback ran; the form
\* handler and its timers nothing of the navbar, reveal elements, counters
\* or menu.
C13_HandlersIndependent ==
    [][/\ scrollY' # scrollY
            => UNCHANGED <<revealVars, counterVars, menuVars, formVars>>
       /\ (clicks' # clicks \/ toggleActive' # toggleActive \/ linksOpen' # linksOpen)
            => UNCHANGED <<navVars, revealVars, counterVars, formVars>>
       /\ revealRuns' # revealRuns
            => /\ UNCHANGED <<navVars, counterVars, menuVars, formVars>>
               /\ \A el \in RevealEls :
                     revealRuns'[el] = revealRuns[el] => visible'[el] = visible[el]
       /\ started' # started
            => UNCHANGED <<navVars, revealVars, menuVars, formVars, textContent>>
       /\ FrameRan
            => /\ UNCHANGED <<navVars, revealVars, menuVars, formVars>>
               /\ \A el \in CounterEls :
                     ClosuresOf(rafQueue, el) = {} => textContent'[el] = textContent[el]
       /\ (submits' # submits \/ timers' # timers)
            => UNCHANGED <<navVars, revealVars, counterVars, menuVars>>]_vars

\* one counter run to its target, the other as the document has it, after
\* scroll and submit events
C13_Witness ==
    /\ markup = TwoCounters
    /\ rafQueue = <<>>
    /\ textContent["c1"] = <<"1", "0", "0">>
    /\ started["c2"] = 0
    /\ textContent["c2"] = <<"0">>
    /\ scrollY > 60
    /\ submits > 0

\* C14: only an intersecting entry reveals.  An element for which no
\* intersecting entry has been handled is hidden and still observed; a
\* callback that handles an intersecting entry for an element leaves it
\* visible and unobserved; and a callback changes nothing of an element
\* for which it handles no intersecting entry, whatever the other entries
\* of the batch are.
C14_OnlyIntersectingReveals ==
    /\ [](loaded => \A el \in markup.reveal :
                        revealRuns[el] = 0 => (~visible[el] /\ el \in revealObserved))
    /\ [][\A el \in RevealEls :
            /\ revealRuns'[el] > revealRuns[el]
                  => (visible'[el] /\ el \notin revealObserved')
            /\ (loaded /\ revealRuns'[el] = revealRuns[el])
                  => /\ visible'[el] = visible[el]
                     /\ (el \in revealObserved') = (el \in revealObserved)]_vars

\* one element revealed by its first intersecting entry, the other still
\* hidden and observed
C14_Witness ==
    /\ loaded
    /\ visible["r2"]
    /\ revealRuns["r2"] = 1
    /\ ~visible["r1"]
    /\ revealRuns["r1"] = 0
    /\ revealObserved = {"r1"}

\* C15: in every reachable state, also when handleFormSubmit runs again
\* before the timers of an earlier run have fired, the button is enabled
\* and labelled 'Enviar Mensaje' only when no timer of any submission is
\* pending.
C15_IdleOnlyWhenNoCycle ==
    (~btnDisabled /\ btnText = IdleText) => timers = <<>>

\* C16: for a non-negative integer target, every value an animation has
\* written to its element is an integer in 0..target, whatever timestamps
\* the frames had.
C16_ValueInRange ==
    \A el \in CounterEls :
        (written[el] /\ ~TargetOf(el).nan /\ TargetOf(el).v >= 0)
        => LET shown == ParseInt(textContent[el])
           IN  /\ ~shown.nan
               /\ NumberToString(shown) = textContent[el]
               /\ 0 <= shown.v
               /\ shown.v <= TargetOf(el).v

\* C17: in every reachable state each counter element has at most one
\* pending frame callback, so two animation loops never run on the same
\* element.
C17_OnePendingFrame ==
    \A el \in CounterEls : Cardinality(ClosuresOf(rafQueue, el)) <= 1

\* C18: when the document has the toggle inactive and the panel closed,
\* the toggle's 'active' flag equals the panel's 'open' flag in every state
\* reachable by toggle clicks and link clicks in any order.
C18_ActiveEqualsOpen ==
    (~markup.active /\ ~markup.open) => (toggleActive = linksOpen)

\* the menu of such a document, opened by a toggle click
C18_Witness ==
    /\ ~markup.active
    /\ ~markup.open
    /\ menuBound
    /\ clicks = 1
    /\ toggleActive
    /\ linksOpen

====
